---------------------------- MODULE Spec2Model ----------------------------
(***************************************************************************)
(* shrLink core: chunker, parallel compressor, integrity verifier and the  *)
(* SHR bundle codec (src/src/compression/mod.rs).                          *)
(*                                                                         *)
(* Bytes are naturals 0..255.  A usize is the record [hi, lo] standing for *)
(* hi * 2^32 + lo, so that the cast `as u32` (keep lo) is modelled with    *)
(* its width although TLC's integers are narrower than 2^32.               *)
(***************************************************************************)
EXTENDS Naturals, Sequences, FiniteSets, Bags, TLC

(***************************************************************************)
(* Bounds of the model.                                                    *)
(***************************************************************************)
\* longest source, in bytes
MaxLen == 5
\* largest block_size (0 is included: ParallelCompressor::new accepts it)
MaxBlock == 3
\* largest worker count
MaxWorkers == 2
\* longest chunk list handed to create_shr_bundle
MaxChunks == 2
\* longest file-hash string handed to create_shr_url
MaxHash == 2
\* longest chunk list handed to reconstruct_file
MaxRecv == 3
\* largest --timeout of the send command, in seconds
MaxTimeout == 2

\* the byte values the sources are written in
DataBytes == {0, 1}

(***************************************************************************)
(* Results: Ok(v) and Err(e), as records.                                  *)
(***************************************************************************)
Ok(v) == [kind |-> "Ok", value |-> v]

Err(e) == [kind |-> "Err", error |-> e]

(***************************************************************************)
(* usize and u32.                                                          *)
(***************************************************************************)
\* a usize below 2^32
Usize(n) == [hi |-> 0, lo |-> n]

\* the cast keeps the high word of a value of 2^32 or more
AsU32_HighWord(x) == IF x.hi > 0 THEN x.hi ELSE x.lo

\* `x as u32`: the low 32 bits
AsU32(x) == x.lo

\* `v as usize` for a u32 v
U32AsUsize(v) == [hi |-> 0, lo |-> v]

\* a <= b on usize
UsizeLeq(a, b) == a.hi < b.hi \/ (a.hi = b.hi /\ a.lo <= b.lo)

\* u32::to_le_bytes
U32ToLeBytes(v) ==
    << v % 256, (v \div 256) % 256, (v \div 65536) % 256, (v \div 16777216) % 256 >>

\* u32::from_le_bytes
U32FromLeBytes(b) == b[1] + 256 * b[2] + 65536 * b[3] + 16777216 * b[4]

(***************************************************************************)
(* blake3: a 32-byte digest.  The digest is modelled as collision-free on  *)
(* inputs shorter than 32 bytes: byte j mixes the input's length with its  *)
(* j-th byte (17 and 31 are odd, hence invertible modulo 256).             *)
(***************************************************************************)
Blake3(bytes) ==
    [j \in 1..32 |->
        (17 * (j + Len(bytes))
           + 31 * (IF j <= Len(bytes) THEN bytes[j] + 1 ELSE 0)) % 256]

(***************************************************************************)
(* hex::encode: two lower-case hex digits per byte.                        *)
(***************************************************************************)
HexDigits ==
    << "0", "1", "2", "3", "4", "5", "6", "7",
       "8", "9", "a", "b", "c", "d", "e", "f" >>

HexEncode(bytes) ==
    [k \in 1..(2 * Len(bytes)) |->
        LET byte == bytes[(k + 1) \div 2]
        IN  IF k % 2 = 1 THEN HexDigits[(byte \div 16) + 1]
                         ELSE HexDigits[(byte % 16) + 1]]

(***************************************************************************)
(* lz4_flex.  compress_prepend_size writes the input length as a u32       *)
(* (little-endian) and then the LZ4 block.  For an input shorter than 13   *)
(* bytes lz4_flex emits one literal run: the token (length << 4), then the *)
(* input bytes.  The bounds keep every block shorter than 13 bytes.        *)
(***************************************************************************)
\* lz4_flex::compress_prepend_size without the size: the block alone
CompressBlockOnly(input) ==
    (IF Len(input) < 15
       THEN << 16 * Len(input) >>
       ELSE << 240, Len(input) - 15 >>)
      \o input

CompressPrependSize(input) ==
    U32ToLeBytes(Len(input))
      \o (IF Len(input) < 15
            THEN << 16 * Len(input) >>
            ELSE << 240, Len(input) - 15 >>)
      \o input

RECURSIVE ReadInteger(_, _, _)
\* the length extension bytes that follow a nibble of 15
ReadInteger(input, pos, acc) ==
    IF pos > Len(input) THEN [ok |-> FALSE, value |-> 0, next |-> pos]
    ELSE IF input[pos] = 255 THEN ReadInteger(input, pos + 1, acc + 255)
    ELSE [ok |-> TRUE, value |-> acc + input[pos], next |-> pos + 1]

RECURSIVE CopyMatch(_, _, _)
\* copy n bytes from `offset` bytes back in the output (may overlap)
CopyMatch(out, offset, n) ==
    IF n = 0 THEN out
    ELSE CopyMatch(Append(out, out[Len(out) + 1 - offset]), offset, n - 1)

RECURSIVE DecompressBlock(_, _, _, _)
\* the LZ4 block decoder: sequences of (token, literals, offset, match)
DecompressBlock(input, pos, out, cap) ==
    IF pos > Len(input) THEN Err("ExpectedAnotherByte")
    ELSE
      LET token == input[pos]
          lit   == IF token \div 16 = 15
                     THEN ReadInteger(input, pos + 1, 15)
                     ELSE [ok |-> TRUE, value |-> token \div 16, next |-> pos + 1]
          lend  == lit.next + lit.value - 1
          out1  == out \o SubSeq(input, lit.next, lend)
          offset == input[lend + 1] + 256 * input[lend + 2]
          mat   == IF token % 16 = 15
                     THEN ReadInteger(input, lend + 3, 15)
                     ELSE [ok |-> TRUE, value |-> token % 16, next |-> lend + 3]
      IN  IF ~lit.ok THEN Err("ExpectedAnotherByte")
          ELSE IF lend > Len(input) THEN Err("LiteralOutOfBounds")
          ELSE IF Len(out) + lit.value > cap THEN Err("OutputTooSmall")
          ELSE IF lend = Len(input) THEN Ok(out1)
          ELSE IF lend + 2 > Len(input) THEN Err("ExpectedAnotherByte")
          ELSE IF ~mat.ok THEN Err("ExpectedAnotherByte")
          ELSE IF offset = 0 \/ offset > Len(out1) THEN Err("OffsetOutOfBounds")
          ELSE IF Len(out1) + mat.value + 4 > cap THEN Err("OutputTooSmall")
          ELSE DecompressBlock(input, mat.next,
                               CopyMatch(out1, offset, mat.value + 4), cap)

\* lz4_flex::decompress_size_prepended
DecompressSizePrepended(input) ==
    IF Len(input) < 4 THEN Err("ExpectedAnotherByte")
    ELSE DecompressBlock(SubSeq(input, 5, Len(input)), 1, << >>,
                         U32FromLeBytes(SubSeq(input, 1, 4)))

(***************************************************************************)
(* CompressedChunk { index, data, hash, original_size } and the per-chunk  *)
(* operations of ParallelCompressor.                                       *)
(***************************************************************************)
CompressedChunk(index, data, hash, original_size) ==
    [index |-> index, data |-> data, hash |-> hash,
     original_size |-> original_size]

\* ParallelCompressor::compress_chunk
compress_chunk(index, chunk) ==
    Ok(CompressedChunk(index, CompressPrependSize(chunk), Blake3(chunk),
                       Usize(Len(chunk))))

\* decompress_chunk without the comparison of the digests
decompress_chunk_unverified(chunk) ==
    LET decompressed == DecompressSizePrepended(chunk.data)
    IN  IF decompressed.kind = "Err"
          THEN [kind |-> "Err", error |-> "Compression"]
          ELSE Ok(decompressed.value)

\* decompress_chunk that also compares the decompressed length with
\* original_size
decompress_chunk_sized(chunk) ==
    LET decompressed == DecompressSizePrepended(chunk.data)
        hash == Blake3(decompressed.value)
    IN  IF decompressed.kind = "Err"
          THEN [kind |-> "Err", error |-> "Compression"]
        ELSE IF Usize(Len(decompressed.value)) # chunk.original_size
          THEN [kind |-> "Err", error |-> "InvalidInput"]
        ELSE IF hash # chunk.hash
          THEN [kind |-> "Err", error |-> "HashMismatch",
                expected |-> HexEncode(chunk.hash),
                actual |-> HexEncode(hash)]
        ELSE Ok(decompressed.value)

\* ParallelCompressor::decompress_chunk
decompress_chunk(chunk) ==
    LET decompressed == DecompressSizePrepended(chunk.data)
        hash == Blake3(decompressed.value)
    IN  IF decompressed.kind = "Err"
          THEN [kind |-> "Err", error |-> "Compression"]
        ELSE IF hash # chunk.hash
          THEN [kind |-> "Err", error |-> "HashMismatch",
                expected |-> HexEncode(chunk.hash),
                actual |-> HexEncode(hash)]
        ELSE Ok(decompressed.value)

(***************************************************************************)
(* The SHR bundle: magic "SHR", version 1, u32 chunk count, one 44-byte    *)
(* metadata record per chunk, then the payloads.                           *)
(***************************************************************************)
\* b"SHR\x01"
Magic == << 83, 72, 82, 1 >>

RECURSIVE WriteMetadata(_)
\* the first loop of create_shr_bundle
WriteMetadata(cs) ==
    IF cs = << >> THEN << >>
    ELSE U32ToLeBytes(AsU32(cs[1].index))
           \o U32ToLeBytes(AsU32(cs[1].original_size))
           \o U32ToLeBytes(AsU32(Usize(Len(cs[1].data))))
           \o cs[1].hash
           \o WriteMetadata(Tail(cs))

RECURSIVE WriteData_Reversed(_)
\* the payloads are written last chunk first
WriteData_Reversed(cs) ==
    IF cs = << >> THEN << >> ELSE WriteData_Reversed(Tail(cs)) \o cs[1].data

RECURSIVE WriteData(_)
\* the second loop of create_shr_bundle
WriteData(cs) ==
    IF cs = << >> THEN << >> ELSE cs[1].data \o WriteData(Tail(cs))

create_shr_bundle(cs) ==
    Ok(Magic \o U32ToLeBytes(AsU32(Usize(Len(cs))))
             \o WriteMetadata(cs) \o WriteData(cs))

\* `bundle.len() < offset + metadata_size` is the error case; the product is
\* formed only for chunk_count <= len (a larger count cannot fit), as it
\* leaves TLC's integers for the largest counts
MetadataFits(len, chunk_count) ==
    chunk_count <= len /\ ~(len < 8 + chunk_count * 44)

\* `Vec::with_capacity(chunk_count)`: the process aborts (handle_alloc_error)
\* when the allocator cannot provide room for chunk_count elements
WithCapacity(chunk_count, memory) == chunk_count <= memory

\* the payload length is not checked
DataFits_Unchecked(offset, compressed_size, len) == TRUE

\* `offset + compressed_size > bundle.len()` is the error case
DataFits(offset, compressed_size, len) == ~(offset + compressed_size > len)

\* the k-th record of the metadata table (offset = 8 + 44 * (k - 1));
\* positions are 0-based as in the code, SubSeq is 1-based
ParseRecord(bundle, offset) ==
    [index |-> U32AsUsize(U32FromLeBytes(SubSeq(bundle, offset + 1, offset + 4))),
     original_size |-> U32AsUsize(U32FromLeBytes(SubSeq(bundle, offset + 5, offset + 8))),
     compressed_size |-> U32FromLeBytes(SubSeq(bundle, offset + 9, offset + 12)),
     hash |-> SubSeq(bundle, offset + 13, offset + 44)]

RECURSIVE ParseMetadata(_, _, _, _)
\* the metadata loop; an index past the end of the slice panics
ParseMetadata(bundle, k, chunk_count, infos) ==
    IF k > chunk_count THEN [kind |-> "Ok", value |-> infos]
    ELSE IF 8 + 44 * k > Len(bundle) THEN [kind |-> "Panic"]
    ELSE ParseMetadata(bundle, k + 1, chunk_count,
                       Append(infos, ParseRecord(bundle, 8 + 44 * (k - 1))))

RECURSIVE ParseData(_, _, _, _, _)
\* the payload loop
ParseData(bundle, infos, k, offset, cs) ==
    IF k > Len(infos) THEN [kind |-> "Ok", value |-> cs]
    ELSE IF ~DataFits(offset, infos[k].compressed_size, Len(bundle))
      THEN Err("InvalidInput")
    ELSE IF offset + infos[k].compressed_size > Len(bundle)
      THEN [kind |-> "Panic"]
    ELSE ParseData(bundle, infos, k + 1, offset + infos[k].compressed_size,
                   Append(cs, CompressedChunk(
                                  infos[k].index,
                                  SubSeq(bundle, offset + 1,
                                         offset + infos[k].compressed_size),
                                  infos[k].hash,
                                  infos[k].original_size)))

RECURSIVE InsertByIndex(_, _)
\* c goes after every element whose index is <= c.index
InsertByIndex(sorted, c) ==
    IF sorted = << >> THEN << c >>
    ELSE IF UsizeLeq(sorted[Len(sorted)].index, c.index) THEN Append(sorted, c)
    ELSE Append(InsertByIndex(SubSeq(sorted, 1, Len(sorted) - 1), c),
                sorted[Len(sorted)])

\* the chunks are left in wire order
SortByIndex_Unsorted(cs) == cs

RECURSIVE SortByIndex(_)
\* chunks.sort_by_key(|c| c.index): a stable sort
SortByIndex(cs) ==
    IF cs = << >> THEN << >>
    ELSE InsertByIndex(SortByIndex(SubSeq(cs, 1, Len(cs) - 1)), cs[Len(cs)])

\* memory: the number of CompressedChunk elements the allocator can provide
parse_shr_bundle(bundle, memory) ==
    IF Len(bundle) < 8 \/ SubSeq(bundle, 1, 4) # Magic
      THEN Err("InvalidInput")
    ELSE
      LET chunk_count == U32FromLeBytes(SubSeq(bundle, 5, 8))
          infos == ParseMetadata(bundle, 1, chunk_count, << >>)
          data  == ParseData(bundle, infos.value, 1, 8 + 44 * chunk_count, << >>)
      IN  IF ~WithCapacity(chunk_count, memory) THEN [kind |-> "Abort"]
          ELSE IF ~MetadataFits(Len(bundle), chunk_count) THEN Err("InvalidInput")
          ELSE IF infos.kind # "Ok" THEN infos
          ELSE IF data.kind # "Ok" THEN data
          ELSE Ok(SortByIndex(data.value))

(***************************************************************************)
(* State.                                                                  *)
(***************************************************************************)
VARIABLES
    \* one compress call, ParallelCompressor { block_size, num_workers }
    api,            \* "compress_file" or "compress_async_reader"
    source,         \* the bytes of the file / reader
    block_size,
    num_workers,
    pc,             \* where the call is
    position,       \* bytes of the source consumed so far
    chunks,         \* read_*_chunks: the raw blocks pushed so far
    reads,          \* the bytes_read value of every read issued, in order
    pending,        \* compress_chunks_parallel: blocks not yet taken
    running,        \* blocks a worker is compressing
    slots,          \* block position -> the worker's Result
    completed,      \* block positions in the order the workers finished
    result,         \* what the compress call returned
    \* the caller's reassembly of the returned chunks (reconstruct_file)
    output_file,
    reconstruct_result,
    \* one chunk through compress_chunk, a change of its digest, decompress_chunk
    block,          \* the raw block
    chunk_index,
    stored_chunk,   \* the CompressedChunk as the caller holds it
    outcome,        \* what decompress_chunk returned
    \* one chunk list through create_shr_bundle and parse_shr_bundle
    in_chunks,      \* the list handed to create_shr_bundle
    created,        \* what create_shr_bundle returned
    buffer,         \* the bytes handed to parse_shr_bundle
    parsed,         \* what parse_shr_bundle returned
    \* one share URL through create_shr_url and parse_shr_url
    local_peer,     \* the peer id
    hash_text,      \* the file hash, a string
    shr_url,        \* what create_shr_url returned
    url_input,      \* the string handed to parse_shr_url
    url_outcome,    \* what parse_shr_url returned
    \* one call of Cli::reconstruct_file
    recv_chunks,    \* the chunks handed to it
    next_chunk,     \* the position of the loop in them
    recv_file,      \* the file at output_path
    recv_result,    \* what the call returned
    \* one call of Cli::send_file
    force_fallback,
    timeout,        \* Option<u64>, seconds
    timeout_ms,     \* config.p2p.timeout_ms
    file_exists,    \* file_path.exists()
    discoveries,    \* the calls of discover_peers so far
    discovered,     \* what the timed discovery returned
    uploads,        \* the calls of upload_to_http so far
    send_result     \* what send_file returned

compressVars ==
    << api, source, block_size, num_workers, pc, position, chunks, reads,
       pending, running, slots, completed, result >>

reconstructVars == << output_file, reconstruct_result >>

chunkVars == << block, chunk_index, stored_chunk, outcome >>

bundleVars == << in_chunks, created, buffer, parsed >>

urlVars == << local_peer, hash_text, shr_url, url_input, url_outcome >>

recvVars == << recv_chunks, next_chunk, recv_file, recv_result >>

sendVars ==
    << force_fallback, timeout, timeout_ms, file_exists, discoveries,
       discovered, uploads, send_result >>

vars ==
    << compressVars, reconstructVars, chunkVars, bundleVars, urlVars,
       recvVars, sendVars >>

None == [kind |-> "None"]

Min(a, b) == IF a <= b THEN a ELSE b

RECURSIVE SeqsUpTo(_, _)
\* the sequences over S of length at most n
SeqsUpTo(S, n) ==
    IF n = 0 THEN { << >> }
    ELSE LET shorter == SeqsUpTo(S, n - 1)
         IN  shorter \cup { Append(s, e) : s \in { t \in shorter : Len(t) = n - 1 }, e \in S }

RECURSIVE SumSeq(_)
SumSeq(s) == IF s = << >> THEN 0 ELSE s[1] + SumSeq(Tail(s))

\* the bytes 1, 2, ..., n: every block of it differs from the others
Ramp(n) == [i \in 1..n |-> i]

\* n times the byte d (the sources of the tests are one value repeated)
Fill(d, n) == [i \in 1..n |-> d]

\* the sources: every short sequence over DataBytes, and for every length
\* up to MaxLen the ramp and the constant sequences
Sources ==
    SeqsUpTo(DataBytes, MaxBlock + 1)
      \cup { Ramp(n) : n \in 0..MaxLen }
      \cup { Fill(d, n) : d \in DataBytes, n \in 0..MaxLen }

(***************************************************************************)
(* ParallelCompressor::new / with_workers.                                 *)
(***************************************************************************)
\* the requested count is stored as given
with_workers_unclamped(n) == n

\* with_workers: num_workers.max(1)
with_workers(n) == IF n >= 1 THEN n ELSE 1

\* no compress call, no chunk and no bundle in hand
IdleCompress ==
    /\ api = "none"
    /\ source = << >>
    /\ block_size = 0
    /\ num_workers = 1
    /\ position = 0
    /\ chunks = << >>
    /\ reads = << >>
    /\ pending = {}
    /\ running = {}
    /\ slots = << >>
    /\ completed = << >>
    /\ result = None
    /\ output_file = << >>
    /\ reconstruct_result = None

IdleChunk ==
    /\ block = << >>
    /\ chunk_index = Usize(0)
    /\ stored_chunk = None
    /\ outcome = None

IdleBundle ==
    /\ in_chunks = << >>
    /\ created = None
    /\ buffer = << >>
    /\ parsed = None

IdleUrl ==
    /\ local_peer = "none"
    /\ hash_text = << >>
    /\ shr_url = << >>
    /\ url_input = << >>
    /\ url_outcome = None

\* the path holds no file
Absent == [kind |-> "Absent"]

IdleRecv ==
    /\ recv_chunks = << >>
    /\ next_chunk = 1
    /\ recv_file = Absent
    /\ recv_result = None

IdleSend ==
    /\ force_fallback = FALSE
    /\ timeout = None
    /\ timeout_ms = 0
    /\ file_exists = FALSE
    /\ discoveries = 0
    /\ discovered = None
    /\ uploads = 0
    /\ send_result = None

Init ==
    /\ IdleChunk
    /\ IdleBundle
    /\ IdleUrl
    /\ IdleRecv
    /\ IdleSend
    /\ api \in {"compress_file", "compress_async_reader"}
    /\ source \in Sources
    /\ block_size \in 0..MaxBlock
    /\ num_workers \in { with_workers(n) : n \in 0..MaxWorkers }
    /\ pc = "read"
    /\ position = 0
    /\ chunks = << >>
    /\ reads = << >>
    /\ pending = {}
    /\ running = {}
    /\ slots = << >>
    /\ completed = << >>
    /\ result = None
    /\ output_file = << >>
    /\ reconstruct_result = None

(***************************************************************************)
(* The chunker: read_file_chunks / read_async_chunks (the same loop).      *)
(***************************************************************************)
\* what one read into a buffer of buflen bytes may return: 0 exactly when
\* the buffer is empty or the source is at its end, otherwise any count up
\* to what fits (a read may be short)
ReadSizes(buflen, remaining) ==
    IF buflen = 0 \/ remaining = 0 THEN {0} ELSE 1..Min(buflen, remaining)

\* the block is pushed before the zero check
PushesBlock_Always(bytes_read) == TRUE

\* `if bytes_read == 0 { break; }` comes before the push
PushesBlock(bytes_read) == bytes_read # 0

\* the loop ends on a zero read only: it goes on after a short read
LoopEnds_OnZeroOnly(bytes_read, bsize) == bytes_read = 0

\* the loop ends on `bytes_read <= self.block_size`
LoopEnds_AtFullBlock(bytes_read, bsize) == bytes_read = 0 \/ bytes_read <= bsize

\* the loop ends on a zero read or on `bytes_read < self.block_size`
LoopEnds(bytes_read, bsize) == bytes_read = 0 \/ bytes_read < bsize

\* one iteration of the loop
ReadChunk ==
    /\ pc = "read"
    /\ \E bytes_read \in ReadSizes(block_size, Len(source) - position) :
         /\ reads' = Append(reads, bytes_read)
         /\ IF PushesBlock(bytes_read)
              THEN /\ chunks' = Append(chunks,
                                   SubSeq(source, position + 1, position + bytes_read))
                   /\ position' = position + bytes_read
              ELSE UNCHANGED << chunks, position >>
         /\ pc' = IF LoopEnds(bytes_read, block_size) THEN "pool" ELSE "read"
    /\ UNCHANGED << api, source, block_size, num_workers, pending, running,
                    slots, completed, result, reconstructVars, chunkVars, bundleVars,
                    urlVars,
                    recvVars, sendVars >>

\* `file.read(&mut buffer)?`: an I/O error ends the call
ReadFails ==
    /\ pc = "read"
    /\ result' = Err("Io")
    /\ pc' = "done"
    /\ UNCHANGED << api, source, block_size, num_workers, position, chunks,
                    reads, pending, running, slots, completed, reconstructVars, chunkVars, bundleVars,
                    urlVars,
                    recvVars, sendVars >>

(***************************************************************************)
(* compress_chunks_parallel: a pool of num_workers threads, a parallel map *)
(* over the enumerated blocks, collected into Result<Vec<_>>.              *)
(***************************************************************************)
\* the pool is built and takes the blocks in hand while the chunker is
\* still reading
BuildPool_WhileReading ==
    /\ pc \in {"read", "pool"}
    /\ pending' = 1..Len(chunks)
    /\ pc' = "compress"
    /\ UNCHANGED << api, source, block_size, num_workers, position, chunks,
                    reads, running, slots, completed, result, reconstructVars,
                    chunkVars, bundleVars, urlVars,
                    recvVars, sendVars >>

BuildPool ==
    /\ pc = "pool"
    /\ pending' = 1..Len(chunks)
    /\ pc' = "compress"
    /\ UNCHANGED << api, source, block_size, num_workers, position, chunks,
                    reads, running, slots, completed, result, reconstructVars, chunkVars, bundleVars,
                    urlVars,
                    recvVars, sendVars >>

\* ThreadPoolBuilder::build() failed
BuildPoolFails ==
    /\ pc = "pool"
    /\ result' = Err("Compression")
    /\ pc' = "done"
    /\ UNCHANGED << api, source, block_size, num_workers, position, chunks,
                    reads, pending, running, slots, completed, reconstructVars, chunkVars, bundleVars,
                    urlVars,
                    recvVars, sendVars >>

\* a free worker takes block k
StartWorker(k) ==
    /\ pc = "compress"
    /\ k \in pending
    /\ Cardinality(running) < num_workers
    /\ pending' = pending \ {k}
    /\ running' = running \cup {k}
    /\ UNCHANGED << api, source, block_size, num_workers, pc, position, chunks,
                    reads, slots, completed, result, reconstructVars, chunkVars, bundleVars,
                    urlVars,
                    recvVars, sendVars >>

\* `.map(|(index, chunk)| self.compress_chunk(index, chunk))` for block k,
\* whose enumerate index is k - 1
MapChunk(k, chunk) == compress_chunk(Usize(k - 1), chunk)

FinishWorker(k) ==
    /\ pc = "compress"
    /\ k \in running
    /\ running' = running \ {k}
    /\ slots' = (k :> MapChunk(k, chunks[k])) @@ slots
    /\ completed' = Append(completed, k)
    /\ UNCHANGED << api, source, block_size, num_workers, pc, position, chunks,
                    reads, pending, result, reconstructVars, chunkVars, bundleVars,
                    urlVars,
                    recvVars, sendVars >>

\* the items are gathered in the order the workers finished
collect_in_completion_order(results, order) ==
    Ok([j \in 1..Len(order) |-> results[order[j]].value])

\* `.collect()` into Result<Vec<_>>: the first Err if any item failed,
\* otherwise the items in the order of the iterator (by block position,
\* not by completion)
collect(results, order) ==
    IF \E k \in DOMAIN results : results[k].kind = "Err"
      THEN LET k == CHOOSE j \in DOMAIN results :
                      /\ results[j].kind = "Err"
                      /\ \A i \in DOMAIN results : results[i].kind = "Err" => j <= i
           IN  results[k]
      ELSE Ok([j \in 1..Len(order) |-> results[j].value])

\* compress_file: file_size from the metadata; compress_async_reader: the
\* sum of the raw block lengths
total_original_size(a, src, blocks) ==
    IF a = "compress_file" THEN Len(src)
    ELSE SumSeq([j \in 1..Len(blocks) |-> Len(blocks[j])])

CompressionResult(a, src, blocks, compressed_chunks) ==
    Ok([chunks |-> compressed_chunks,
        total_original_size |-> total_original_size(a, src, blocks),
        total_compressed_size |->
            SumSeq([j \in 1..Len(compressed_chunks) |-> Len(compressed_chunks[j].data)])])

\* all workers are done: collect, then `?` and the totals
Return ==
    /\ pc = "compress"
    /\ pending = {} /\ running = {}
    /\ LET results == collect(slots, completed)
       IN  result' = IF results.kind = "Err" THEN results
                     ELSE CompressionResult(api, source, chunks, results.value)
    /\ pc' = "done"
    /\ slots' = << >>
    /\ UNCHANGED << api, source, block_size, num_workers, position, chunks,
                    reads, pending, running, completed, reconstructVars, chunkVars, bundleVars,
                    urlVars,
                    recvVars, sendVars >>

(***************************************************************************)
(* cli reconstruct_file (and the loop of the tests): decompress the chunks *)
(* in the order given and append each plaintext to the output; the first   *)
(* failure ends the loop with what was written so far.                     *)
(***************************************************************************)
RECURSIVE WriteChunks(_, _, _)
WriteChunks(cs, k, output) ==
    IF k > Len(cs) THEN [result |-> Ok("done"), output |-> output]
    ELSE LET decompressed == decompress_chunk(cs[k])
         IN  IF decompressed.kind = "Err"
               THEN [result |-> decompressed, output |-> output]
               ELSE WriteChunks(cs, k + 1, output \o decompressed.value)

reconstruct_file(cs) == WriteChunks(cs, 1, << >>)

Reconstruct ==
    /\ pc = "done"
    /\ result.kind = "Ok"
    /\ LET r == reconstruct_file(result.value.chunks)
       IN  /\ output_file' = r.output
           /\ reconstruct_result' = r.result
    /\ pc' = "reconstructed"
    /\ UNCHANGED << api, source, block_size, num_workers, position, chunks,
                    reads, pending, running, slots, completed, result,
                    chunkVars, bundleVars, urlVars,
                    recvVars, sendVars >>

Next ==
    \/ ReadChunk
    \/ ReadFails
    \/ BuildPool
    \/ BuildPoolFails
    \/ \E k \in 1..MaxLen : StartWorker(k)
    \/ \E k \in 1..MaxLen : FinishWorker(k)
    \/ Return
    \/ Reconstruct

Spec == Init /\ [][Next]_vars

(***************************************************************************)
(* One chunk: compress_chunk, then the caller changes the stored digest    *)
(* (tests/integration.rs, test_hash_verification) or cuts the payload,     *)
(* then decompress_chunk.                                                  *)
(***************************************************************************)
\* a usize of 2^32 + lo
Wide(lo) == [hi |-> 1, lo |-> lo]

InitChunk ==
    /\ IdleCompress
    /\ IdleRecv
    /\ IdleSend
    /\ IdleBundle
    /\ IdleUrl
    /\ pc = "chunk"
    /\ block \in SeqsUpTo(DataBytes, MaxBlock)
    /\ chunk_index \in {Usize(0), Usize(1), Wide(0)}
    /\ stored_chunk = None
    /\ outcome = None

CompressOne ==
    /\ pc = "chunk"
    /\ stored_chunk = None
    /\ stored_chunk' = compress_chunk(chunk_index, block).value
    /\ UNCHANGED << pc, block, chunk_index, outcome, compressVars,
                    reconstructVars, bundleVars, urlVars,
                    recvVars, sendVars >>

\* byte with one bit flipped
FlipBit(byte, bit) ==
    IF (byte \div (2 ^ bit)) % 2 = 1 THEN byte - 2 ^ bit ELSE byte + 2 ^ bit

\* the chunk is as compress_chunk returned it
Intact == stored_chunk = compress_chunk(chunk_index, block).value

\* the caller flips one bit of the stored digest
FlipDigestBit(j, bit) ==
    /\ pc = "chunk"
    /\ outcome = None
    /\ stored_chunk' =
         [stored_chunk EXCEPT !.hash[j] = FlipBit(stored_chunk.hash[j], bit)]
    /\ UNCHANGED << pc, block, chunk_index, outcome, compressVars,
                    reconstructVars, bundleVars, urlVars,
                    recvVars, sendVars >>

\* the caller stores the digest of some other block
ReplaceDigest(other) ==
    /\ pc = "chunk"
    /\ outcome = None
    /\ other # block
    /\ stored_chunk' = [stored_chunk EXCEPT !.hash = Blake3(other)]
    /\ UNCHANGED << pc, block, chunk_index, outcome, compressVars,
                    reconstructVars, bundleVars, urlVars,
                    recvVars, sendVars >>

\* the caller keeps only the first p bytes of the payload
TruncatePayload(p) ==
    /\ pc = "chunk"
    /\ outcome = None
    /\ p < Len(stored_chunk.data)
    /\ stored_chunk' = [stored_chunk EXCEPT !.data = SubSeq(stored_chunk.data, 1, p)]
    /\ UNCHANGED << pc, block, chunk_index, outcome, compressVars,
                    reconstructVars, bundleVars, urlVars,
                    recvVars, sendVars >>

DecompressOne ==
    /\ pc = "chunk"
    /\ stored_chunk # None
    /\ outcome = None
    /\ outcome' = decompress_chunk(stored_chunk)
    /\ UNCHANGED << pc, block, chunk_index, stored_chunk, compressVars,
                    reconstructVars, bundleVars, urlVars,
                    recvVars, sendVars >>

NextChunk ==
    \/ CompressOne
    \/ (Intact /\ \E j \in 1..32, bit \in 0..7 : FlipDigestBit(j, bit))
    \/ (Intact /\ \E other \in SeqsUpTo(DataBytes, MaxBlock + 1) : ReplaceDigest(other))
    \/ (Intact /\ \E p \in 0..(MaxBlock + 4) : TruncatePayload(p))
    \/ DecompressOne

SpecChunk == InitChunk /\ [][NextChunk]_vars

(***************************************************************************)
(* One chunk list: create_shr_bundle, then parse_shr_bundle on the bundle, *)
(* on a prefix of it, or on the bundle with one byte replaced.             *)
(***************************************************************************)
\* the memory the allocator may have, in elements of the chunk vector
\* (72 bytes each): room for 2^30 elements (72 GiB), or room for any count
\* below 2^31
Memories == { 1073741824, 2147483647 }

\* the values a replaced byte takes (below 128: a u32 field with a replaced
\* top byte stays within TLC's integers)
AlterBytes == { 0, 1, 2, 127 }

\* the chunks the lists are drawn from: chunks of compress_chunk, with
\* indices below and above 2^32, and hand-built ones (the fields are pub)
ChunkPool ==
    { compress_chunk(i, b).value :
        i \in {Usize(0), Usize(1), Wide(1)}, b \in {<< >>, << 1 >>} }
    \cup { CompressedChunk(Usize(2), << >>, Blake3(<< >>), Usize(0)),
           CompressedChunk(Usize(0), CompressPrependSize(<< 0, 1 >>),
                           Blake3(<< 0, 1 >>), Wide(2)) }

InitBundle ==
    /\ IdleCompress
    /\ IdleRecv
    /\ IdleSend
    /\ IdleChunk
    /\ IdleUrl
    /\ pc = "bundle"
    /\ in_chunks \in SeqsUpTo(ChunkPool, MaxChunks)
    /\ created = None
    /\ buffer = << >>
    /\ parsed = None

CreateBundle ==
    /\ pc = "bundle"
    /\ created = None
    /\ created' = create_shr_bundle(in_chunks)
    /\ UNCHANGED << pc, in_chunks, buffer, parsed, compressVars,
                    reconstructVars, chunkVars, urlVars,
                    recvVars, sendVars >>

\* the whole bundle is parsed
ParseBundle ==
    /\ pc = "bundle"
    /\ created # None
    /\ parsed = None
    /\ buffer' = created.value
    /\ \E memory \in Memories :
         parsed' = parse_shr_bundle(created.value, memory)
    /\ UNCHANGED << pc, in_chunks, created, compressVars, reconstructVars,
                    chunkVars, urlVars,
                    recvVars, sendVars >>

\* the first p bytes of the bundle are parsed
ParseTruncated(p) ==
    /\ pc = "bundle"
    /\ created # None
    /\ parsed = None
    /\ p < Len(created.value)
    /\ buffer' = SubSeq(created.value, 1, p)
    /\ \E memory \in Memories :
         parsed' = parse_shr_bundle(SubSeq(created.value, 1, p), memory)
    /\ UNCHANGED << pc, in_chunks, created, compressVars, reconstructVars,
                    chunkVars, urlVars,
                    recvVars, sendVars >>

\* the bundle with byte p (1-based) replaced by v is parsed
ParseAltered(p, v) ==
    /\ pc = "bundle"
    /\ created # None
    /\ parsed = None
    /\ p <= Len(created.value)
    /\ v # created.value[p]
    /\ buffer' = [created.value EXCEPT ![p] = v]
    /\ \E memory \in Memories :
         parsed' = parse_shr_bundle([created.value EXCEPT ![p] = v], memory)
    /\ UNCHANGED << pc, in_chunks, created, compressVars, reconstructVars,
                    chunkVars, urlVars,
                    recvVars, sendVars >>

\* the length of the longest bundle of the model
MaxBundleLen == 8 + MaxChunks * (44 + 7)

NextBundle ==
    \/ CreateBundle
    \/ ParseBundle
    \/ \E p \in 0..MaxBundleLen : ParseTruncated(p)
    \/ \E p \in 1..MaxBundleLen, v \in AlterBytes : ParseAltered(p, v)

SpecBundle == InitBundle /\ [][NextBundle]_vars

(***************************************************************************)
(* The share URL (src/src/p2p/mod.rs): create_shr_url, then parse_shr_url  *)
(* on the URL, on a prefix of it, or on the URL with one character         *)
(* replaced.  Strings are sequences of characters.                         *)
(***************************************************************************)
\* "shr://"
Scheme == << "s", "h", "r", ":", "/", "/" >>

PeerIds == { "peerA", "peerB" }

\* PeerId's Display: the base58 text of the id (no '/' in that alphabet)
PeerIdToString(p) == IF p = "peerA" THEN << "Q", "m" >> ELSE << "1", "2" >>

\* str::parse::<PeerId>(): the id whose text it is, or an error
PeerIdFromStr(s) ==
    IF \E p \in PeerIds : PeerIdToString(p) = s
      THEN Ok(CHOOSE p \in PeerIds : PeerIdToString(p) = s)
      ELSE Err("ParseError")

\* format!("shr://{}/{}", peer_id, file_hash)
create_shr_url(peer_id, file_hash) ==
    Scheme \o PeerIdToString(peer_id) \o << "/" >> \o file_hash

\* str::starts_with
StartsWith(s, prefix) ==
    Len(s) >= Len(prefix) /\ SubSeq(s, 1, Len(prefix)) = prefix

RECURSIVE Split(_, _)
\* str::split(sep).collect(): the pieces between the separators
Split(s, sep) ==
    IF \A i \in 1..Len(s) : s[i] # sep THEN << s >>
    ELSE LET i == CHOOSE j \in 1..Len(s) :
                      s[j] = sep /\ \A k \in 1..(j - 1) : s[k] # sep
         IN  << SubSeq(s, 1, i - 1) >> \o Split(SubSeq(s, i + 1, Len(s)), sep)

\* the slice starts one character early: `url[5..]`
UrlRest_FromFive(url) == SubSeq(url, 6, Len(url))

\* `url[6..]`
UrlRest(url) == SubSeq(url, 7, Len(url))

parse_shr_url(url) ==
    IF ~StartsWith(url, Scheme) THEN Err("InvalidInput")
    ELSE LET parts == Split(UrlRest(url), "/")
             peer_id == PeerIdFromStr(parts[1])
         IN  IF Len(parts) # 2 THEN Err("InvalidInput")
             ELSE IF peer_id.kind = "Err" THEN Err("InvalidInput")
             ELSE Ok(<< peer_id.value, parts[2] >>)

\* the characters of the file-hash strings: two hex digits and '/'
HashChars == { "a", "0", "/" }

\* the characters a replaced character takes
UrlChars == { "a", "/", ":", "m" }

InitUrl ==
    /\ IdleCompress
    /\ IdleRecv
    /\ IdleSend
    /\ IdleChunk
    /\ IdleBundle
    /\ pc = "url"
    /\ local_peer \in PeerIds
    /\ hash_text \in SeqsUpTo(HashChars, MaxHash)
    /\ shr_url = << >>
    /\ url_input = << >>
    /\ url_outcome = None

CreateUrl ==
    /\ pc = "url"
    /\ shr_url' = create_shr_url(local_peer, hash_text)
    /\ pc' = "url_made"
    /\ UNCHANGED << api, source, block_size, num_workers, position, chunks,
                    reads, pending, running, slots, completed, result,
                    local_peer, hash_text, url_input, url_outcome,
                    reconstructVars, chunkVars, bundleVars,
                    recvVars, sendVars >>

\* parse_shr_url on the string text
ParseText(text) ==
    /\ url_input' = text
    /\ url_outcome' = parse_shr_url(text)
    /\ pc' = "url_parsed"
    /\ UNCHANGED << api, source, block_size, num_workers, position, chunks,
                    reads, pending, running, slots, completed, result,
                    local_peer, hash_text, shr_url,
                    reconstructVars, chunkVars, bundleVars,
                    recvVars, sendVars >>

\* the URL as created is parsed
ParseUrl ==
    /\ pc = "url_made"
    /\ ParseText(shr_url)

\* the first p characters of the URL are parsed
ParseCutUrl(p) ==
    /\ pc = "url_made"
    /\ p < Len(shr_url)
    /\ ParseText(SubSeq(shr_url, 1, p))

\* the URL with character p replaced by c is parsed
ParseAlteredUrl(p, c) ==
    /\ pc = "url_made"
    /\ p <= Len(shr_url)
    /\ c # shr_url[p]
    /\ ParseText([shr_url EXCEPT ![p] = c])

\* the length of the longest URL of the model
MaxUrlLen == 6 + 2 + 1 + MaxHash

NextUrl ==
    \/ CreateUrl
    \/ ParseUrl
    \/ \E p \in 0..MaxUrlLen : ParseCutUrl(p)
    \/ \E p \in 1..MaxUrlLen, c \in UrlChars : ParseAlteredUrl(p, c)

SpecUrl == InitUrl /\ [][NextUrl]_vars

(***************************************************************************)
(* Cli::reconstruct_file (src/src/cli/mod.rs), one statement at a time:    *)
(* File::create, then for each chunk decompress_chunk and write_all, then  *)
(* flush.  Each `?` returns the error at once.                             *)
(***************************************************************************)
\* the file at the path, with its content
FileOf(content) == [kind |-> "File", content |-> content]

\* the chunks the lists are drawn from: two intact ones, one whose digest
\* is that of another block, one whose payload is cut
RecvPool ==
    { compress_chunk(Usize(0), << 0 >>).value,
      compress_chunk(Usize(1), << 1, 0 >>).value,
      [compress_chunk(Usize(0), << 1 >>).value EXCEPT !.hash = Blake3(<< 0 >>)],
      [compress_chunk(Usize(1), << 1 >>).value EXCEPT !.data = << 1, 0, 0 >>] }

InitRecv ==
    /\ IdleCompress
    /\ IdleChunk
    /\ IdleBundle
    /\ IdleUrl
    /\ IdleSend
    /\ pc = "recv"
    /\ recv_chunks \in SeqsUpTo(RecvPool, MaxRecv)
    /\ next_chunk = 1
    /\ recv_file \in { Absent, FileOf(<< 7 >>) }
    /\ recv_result = None

\* File::create(output_path): the file is created or truncated
CreateFile ==
    /\ pc = "recv"
    /\ recv_file' = FileOf(<< >>)
    /\ pc' = "recv_loop"
    /\ UNCHANGED << api, source, block_size, num_workers, position, chunks,
                    reads, pending, running, slots, completed, result,
                    recv_chunks, next_chunk, recv_result,
                    reconstructVars, chunkVars, bundleVars, urlVars, sendVars >>

\* File::create failed
CreateFileFails ==
    /\ pc = "recv"
    /\ recv_result' = Err("Io")
    /\ pc' = "recv_done"
    /\ UNCHANGED << api, source, block_size, num_workers, position, chunks,
                    reads, pending, running, slots, completed, result,
                    recv_chunks, next_chunk, recv_file,
                    reconstructVars, chunkVars, bundleVars, urlVars, sendVars >>

\* a chunk that fails to decompress is passed over and the loop goes on
WriteNext_SkipsBad ==
    /\ pc = "recv_loop"
    /\ next_chunk <= Len(recv_chunks)
    /\ LET decompressed == decompress_chunk(recv_chunks[next_chunk])
       IN  recv_file' = IF decompressed.kind = "Err" THEN recv_file
                        ELSE FileOf(recv_file.content \o decompressed.value)
    /\ next_chunk' = next_chunk + 1
    /\ UNCHANGED << api, source, block_size, num_workers, pc, position,
                    chunks, reads, pending, running, slots, completed, result,
                    recv_chunks, recv_result,
                    reconstructVars, chunkVars, bundleVars, urlVars, sendVars >>

\* one iteration: `decompress_chunk(chunk)?`, then write_all
WriteNext ==
    /\ pc = "recv_loop"
    /\ next_chunk <= Len(recv_chunks)
    /\ LET decompressed == decompress_chunk(recv_chunks[next_chunk])
       IN  IF decompressed.kind = "Err"
             THEN /\ recv_result' = decompressed
                  /\ pc' = "recv_done"
                  /\ UNCHANGED << recv_file, next_chunk >>
             ELSE /\ recv_file' = FileOf(recv_file.content \o decompressed.value)
                  /\ next_chunk' = next_chunk + 1
                  /\ UNCHANGED << recv_result, pc >>
    /\ UNCHANGED << api, source, block_size, num_workers, position,
                    chunks, reads, pending, running, slots, completed, result,
                    recv_chunks,
                    reconstructVars, chunkVars, bundleVars, urlVars, sendVars >>

\* write_all failed after n bytes of the plaintext went out
WriteFails(n) ==
    /\ pc = "recv_loop"
    /\ next_chunk <= Len(recv_chunks)
    /\ LET decompressed == decompress_chunk(recv_chunks[next_chunk])
       IN  /\ decompressed.kind = "Ok"
           /\ n <= Len(decompressed.value)
           /\ recv_file' = FileOf(recv_file.content
                                    \o SubSeq(decompressed.value, 1, n))
    /\ recv_result' = Err("Io")
    /\ pc' = "recv_done"
    /\ UNCHANGED << api, source, block_size, num_workers, position,
                    chunks, reads, pending, running, slots, completed, result,
                    recv_chunks, next_chunk,
                    reconstructVars, chunkVars, bundleVars, urlVars, sendVars >>

\* after the loop: flush, then Ok(())
Flush ==
    /\ pc = "recv_loop"
    /\ next_chunk > Len(recv_chunks)
    /\ recv_result' \in { Ok("done"), Err("Io") }
    /\ pc' = "recv_done"
    /\ UNCHANGED << api, source, block_size, num_workers, position,
                    chunks, reads, pending, running, slots, completed, result,
                    recv_chunks, next_chunk, recv_file,
                    reconstructVars, chunkVars, bundleVars, urlVars, sendVars >>

NextRecv ==
    \/ CreateFile
    \/ CreateFileFails
    \/ WriteNext
    \/ \E n \in 0..MaxBlock : WriteFails(n)
    \/ Flush

SpecRecv == InitRecv /\ [][NextRecv]_vars

(***************************************************************************)
(* Cli::send_file (src/src/cli/mod.rs): the file check, compress_file,     *)
(* then upload_to_http or try_p2p_then_fallback.                           *)
(***************************************************************************)
\* Option<u64>
Some(v) == [kind |-> "Some", value |-> v]

\* tokio::time::timeout ran out: Err(Elapsed)
Elapsed == [kind |-> "Elapsed"]

\* `timeout.unwrap_or(config.p2p.timeout_ms / 1000)`
P2pTimeout(t, ms) == IF t = None THEN ms \div 1000 ELSE t.value

\* what `timeout(Duration::from_secs(secs), discover_peers())` returns:
\* discover_peers sleeps 1000 ms and returns Ok(vec![]); a limit of
\* exactly 1000 ms may or may not run out first
DiscoveryOutcomes(secs) ==
    IF secs * 1000 < 1000 THEN { Elapsed }
    ELSE IF secs * 1000 = 1000 THEN { Elapsed, Ok(Ok(<< >>)) }
    ELSE { Ok(Ok(<< >>)) }

\* the guard `!peer_list.is_empty()` is left out
PeersFound_AnyList(peers) == peers.kind = "Ok" /\ peers.value.kind = "Ok"

\* the first arm of the match: `Ok(Ok(peer_list)) if !peer_list.is_empty()`
PeersFound(peers) ==
    /\ peers.kind = "Ok"
    /\ peers.value.kind = "Ok"
    /\ peers.value.value # << >>

\* the values of config.p2p.timeout_ms (5000 is the default)
TimeoutsMs == { 0, 999, 1000, 5000 }

InitSend ==
    /\ IdleCompress
    /\ IdleChunk
    /\ IdleBundle
    /\ IdleUrl
    /\ IdleRecv
    /\ pc = "send"
    /\ force_fallback \in BOOLEAN
    /\ timeout \in { None } \cup { Some(v) : v \in 0..MaxTimeout }
    /\ timeout_ms \in TimeoutsMs
    /\ file_exists \in BOOLEAN
    /\ discoveries = 0
    /\ discovered = None
    /\ uploads = 0
    /\ send_result = None

\* `if !file_path.exists()`
FileNotFound ==
    /\ pc = "send"
    /\ ~file_exists
    /\ send_result' = Err("InvalidInput")
    /\ pc' = "send_done"
    /\ UNCHANGED << api, source, block_size, num_workers, position, chunks,
                    reads, pending, running, slots, completed, result,
                    force_fallback, timeout, timeout_ms, file_exists,
                    discoveries, discovered, uploads,
                    reconstructVars, chunkVars, bundleVars, urlVars, recvVars >>

\* `compressor.compress_file(file_path)?` returned the chunks
Compressed ==
    /\ pc = "send"
    /\ file_exists
    /\ pc' = "send_route"
    /\ UNCHANGED << api, source, block_size, num_workers, position, chunks,
                    reads, pending, running, slots, completed, result,
                    sendVars,
                    reconstructVars, chunkVars, bundleVars, urlVars, recvVars >>

\* `compressor.compress_file(file_path)?` returned an error
CompressFailed ==
    /\ pc = "send"
    /\ file_exists
    /\ send_result' \in { Err("Io"), Err("Compression") }
    /\ pc' = "send_done"
    /\ UNCHANGED << api, source, block_size, num_workers, position, chunks,
                    reads, pending, running, slots, completed, result,
                    force_fallback, timeout, timeout_ms, file_exists,
                    discoveries, discovered, uploads,
                    reconstructVars, chunkVars, bundleVars, urlVars, recvVars >>

\* `if force_fallback { self.upload_to_http(..) }`
UploadForced ==
    /\ pc = "send_route"
    /\ force_fallback
    /\ uploads' = uploads + 1
    /\ pc' = "send_upload"
    /\ UNCHANGED << api, source, block_size, num_workers, position, chunks,
                    reads, pending, running, slots, completed, result,
                    force_fallback, timeout, timeout_ms, file_exists,
                    discoveries, discovered, send_result,
                    reconstructVars, chunkVars, bundleVars, urlVars, recvVars >>

\* `else { self.try_p2p_then_fallback(..) }`: discover_peers is started
StartDiscovery ==
    /\ pc = "send_route"
    /\ ~force_fallback
    /\ discoveries' = discoveries + 1
    /\ pc' = "send_discover"
    /\ UNCHANGED << api, source, block_size, num_workers, position, chunks,
                    reads, pending, running, slots, completed, result,
                    force_fallback, timeout, timeout_ms, file_exists,
                    discovered, uploads, send_result,
                    reconstructVars, chunkVars, bundleVars, urlVars, recvVars >>

\* the timed discovery returns and `match peers` takes its arm: the share
\* URL is shown, or upload_to_http is called
DiscoveryEnds ==
    /\ pc = "send_discover"
    /\ \E peers \in DiscoveryOutcomes(P2pTimeout(timeout, timeout_ms)) :
         /\ discovered' = peers
         /\ IF PeersFound(peers)
              THEN /\ send_result' = Ok("shr_url")
                   /\ pc' = "send_done"
                   /\ UNCHANGED uploads
              ELSE /\ uploads' = uploads + 1
                   /\ pc' = "send_upload"
                   /\ UNCHANGED send_result
    /\ UNCHANGED << api, source, block_size, num_workers, position, chunks,
                    reads, pending, running, slots, completed, result,
                    force_fallback, timeout, timeout_ms, file_exists,
                    discoveries,
                    reconstructVars, chunkVars, bundleVars, urlVars, recvVars >>

\* upload_to_http returns: the download URL, or a network error
UploadEnds ==
    /\ pc = "send_upload"
    /\ send_result' \in { Ok("download_url"), Err("Network") }
    /\ pc' = "send_done"
    /\ UNCHANGED << api, source, block_size, num_workers, position, chunks,
                    reads, pending, running, slots, completed, result,
                    force_fallback, timeout, timeout_ms, file_exists,
                    discoveries, discovered, uploads,
                    reconstructVars, chunkVars, bundleVars, urlVars, recvVars >>

NextSend ==
    \/ FileNotFound
    \/ Compressed
    \/ CompressFailed
    \/ UploadForced
    \/ StartDiscovery
    \/ DiscoveryEnds
    \/ UploadEnds

SpecSend == InitSend /\ [][NextSend]_vars

(***************************************************************************)
(* Properties.                                                             *)
(***************************************************************************)
\* the chunker has returned its blocks (no read failed)
ChunkerDone ==
    \/ pc \in {"pool", "compress"}
    \/ pc \in {"done", "reconstructed"} /\ result # Err("Io")

\* the compress call returned Ok
CompressOk == pc \in {"done", "reconstructed"} /\ result.kind = "Ok"

\* every read returned as many bytes as the buffer and the source allowed
FullReads ==
    \A i \in 1..Len(reads) :
        reads[i] = Min(block_size, Len(source) - SumSeq(SubSeq(reads, 1, i - 1)))

CeilDiv(a, b) == (a + b - 1) \div b

\* the workers did not finish in block order
FinishedOutOfOrder ==
    \E i, j \in 1..Len(completed) : i < j /\ completed[i] > completed[j]

\* C1: for block_size > 0, decompressing every returned chunk and
\* concatenating in index order yields the source, whatever the reads return
C1_RoundTrip ==
    (pc = "reconstructed" /\ block_size > 0)
        => (reconstruct_result.kind = "Ok" /\ output_file = source)

\* every index and original_size of the list is below 2^32
Narrow(cs) ==
    \A k \in 1..Len(cs) : cs[k].index.hi = 0 /\ cs[k].original_size.hi = 0

\* the bag of the elements of a sequence
BagOfSeq(sq) ==
    [e \in { sq[k] : k \in 1..Len(sq) } |->
        Cardinality({ k \in 1..Len(sq) : sq[k] = e })]

\* the whole bundle was handed to parse_shr_bundle
ParsedWhole == pc = "bundle" /\ parsed # None /\ buffer = created.value

\* C2 as stated: parse_shr_bundle(create_shr_bundle(chunks)) succeeds and
\* returns exactly the same chunks, by index ascending, for any list
C2_RoundTripAnyList ==
    ParsedWhole =>
        /\ parsed.kind = "Ok"
        /\ BagOfSeq(parsed.value) = BagOfSeq(in_chunks)
        /\ \A k \in 1..(Len(parsed.value) - 1) :
             UsizeLeq(parsed.value[k].index, parsed.value[k + 1].index)

\* C2 amended: the same, for the lists whose indices and original sizes are
\* below 2^32
C2_RoundTripNarrow ==
    (ParsedWhole /\ Narrow(in_chunks)) =>
        /\ parsed.kind = "Ok"
        /\ Len(parsed.value) = Len(in_chunks)
        /\ BagOfSeq(parsed.value) = BagOfSeq(in_chunks)
        /\ \A k \in 1..(Len(parsed.value) - 1) :
             UsizeLeq(parsed.value[k].index, parsed.value[k + 1].index)

C2_Witness ==
    /\ ParsedWhole
    /\ Narrow(in_chunks)
    /\ Len(in_chunks) = 2
    /\ ~UsizeLeq(in_chunks[1].index, in_chunks[2].index)
    /\ parsed.kind = "Ok"
    /\ parsed.value = << in_chunks[2], in_chunks[1] >>

\* C3: a valid chunk whose stored digest was replaced by a different value
\* makes decompress_chunk fail with HashMismatch, expected = the stored
\* digest, actual = the digest of the decompressed bytes, and no plaintext
C3_HashMismatch ==
    (/\ pc = "chunk"
     /\ outcome # None
     /\ stored_chunk.data = compress_chunk(chunk_index, block).value.data
     /\ stored_chunk.hash # compress_chunk(chunk_index, block).value.hash)
        => /\ outcome.kind = "Err"
           /\ outcome.error = "HashMismatch"
           /\ outcome.expected = HexEncode(stored_chunk.hash)
           /\ outcome.actual = HexEncode(Blake3(block))
           /\ DOMAIN outcome = {"kind", "error", "expected", "actual"}

C3_Witness ==
    /\ pc = "chunk"
    /\ Len(block) >= 1
    /\ stored_chunk # None
    /\ stored_chunk.hash # Blake3(block)
    /\ outcome # None
    /\ outcome.kind = "Err"
    /\ outcome.error = "HashMismatch"

\* C4: parse_shr_bundle on the first p bytes of a bundle, 4 <= p < length,
\* returns an error: no panic (no read at or beyond p), no chunk list
C4_TruncatedRejected ==
    (/\ pc = "bundle"
     /\ parsed # None
     /\ 4 <= Len(buffer)
     /\ Len(buffer) < Len(created.value))
        => parsed.kind = "Err"

C4_Witness ==
    /\ pc = "bundle"
    /\ parsed # None
    /\ Len(in_chunks) = 2
    /\ Len(buffer) > 8 + 44 * 2
    /\ Len(buffer) < Len(created.value)
    /\ parsed.kind = "Err"

\* C5: in every order in which the workers finish, the returned list has at
\* position k the chunk with index k built from raw block k
C5_OrderedByIndex ==
    CompressOk =>
        /\ Len(result.value.chunks) = Len(chunks)
        /\ \A k \in 1..Len(chunks) :
             /\ result.value.chunks[k].index = Usize(k - 1)
             /\ result.value.chunks[k].original_size = Usize(Len(chunks[k]))
             /\ decompress_chunk(result.value.chunks[k]) = Ok(chunks[k])

C5_Witness ==
    /\ CompressOk
    /\ Len(result.value.chunks) >= 3
    /\ FinishedOutOfOrder
    /\ chunks[1] # chunks[2]

RECURSIVE OneWorkerInOrder(_, _, _)
\* the list a single worker builds when it takes the blocks one by one
OneWorkerInOrder(blocks, k, out) ==
    IF k > Len(blocks) THEN out
    ELSE OneWorkerInOrder(blocks, k + 1,
                          Append(out, compress_chunk(Usize(k - 1), blocks[k]).value))

\* C6: the list returned with W workers agrees with the list of one worker,
\* index by index, on index, digest, original_size and data
C6_WorkerCountInvariant ==
    CompressOk =>
        LET one == OneWorkerInOrder(chunks, 1, << >>)
            got == result.value.chunks
        IN  /\ Len(got) = Len(one)
            /\ \A k \in 1..Len(one) :
                 /\ got[k].index = one[k].index
                 /\ got[k].hash = one[k].hash
                 /\ got[k].original_size = one[k].original_size
                 /\ got[k].data = one[k].data

C6_Witness ==
    /\ CompressOk
    /\ num_workers >= 2
    /\ Len(result.value.chunks) >= 2
    /\ FinishedOutOfOrder
    /\ chunks[Len(chunks)] # chunks[1]

\* C7: with full reads and block_size B > 0, a source of length L gives
\* ceil(L / B) chunks: 0 for L = 0, 1 for L = B, 5 for L = 5 * B
C7_ChunkCount ==
    (CompressOk /\ block_size > 0 /\ FullReads) =>
        /\ Len(result.value.chunks) = CeilDiv(Len(source), block_size)
        /\ Len(source) = 0 => Len(result.value.chunks) = 0
        /\ Len(source) = block_size => Len(result.value.chunks) = 1
        /\ Len(source) = 5 * block_size => Len(result.value.chunks) = 5

C7_Witness ==
    /\ CompressOk
    /\ FullReads
    /\ block_size > 0
    /\ Len(source) = 5 * block_size
    /\ Len(result.value.chunks) = 5

\* C8: no returned chunk has original_size 0, and a zero-length source
\* gives an empty chunk list, in every sequence of reads
C8_NoEmptyChunk ==
    CompressOk =>
        /\ \A k \in 1..Len(result.value.chunks) :
             /\ result.value.chunks[k].original_size # Usize(0)
             /\ Len(chunks[k]) > 0
        /\ Len(source) = 0 => result.value.chunks = << >>

C8_Witness ==
    /\ CompressOk
    /\ block_size > 0
    /\ Len(source) = 0
    /\ reads = << 0 >>
    /\ result.value.chunks = << >>

\* a source of k full blocks, k > 0, read in full reads
ExactMultiple ==
    /\ ChunkerDone
    /\ block_size > 0
    /\ Len(source) > 0
    /\ Len(source) % block_size = 0
    /\ FullReads

\* C9 as stated: for a source of k * B bytes the chunker issues exactly k
\* reads and no trailing read that returns zero bytes
C9_NoTrailingRead ==
    ExactMultiple => Len(reads) = Len(source) \div block_size

\* C9 amended: it issues k + 1 reads, k full blocks and then one read of
\* zero bytes that ends the loop without a block; it emits k full blocks
C9_TrailingZeroRead ==
    ExactMultiple =>
        LET k == Len(source) \div block_size
        IN  /\ Len(reads) = k + 1
            /\ \A i \in 1..k : reads[i] = block_size
            /\ reads[k + 1] = 0
            /\ Len(chunks) = k
            /\ \A i \in 1..k : Len(chunks[i]) = block_size

C9_Witness ==
    /\ ExactMultiple
    /\ block_size = 2
    /\ Len(source) = 4
    /\ reads = << 2, 2, 0 >>
    /\ Len(chunks) = 2

\* C10: compress with block_size = 0 never returns Ok with a chunk list
C10_ZeroBlockSizeRejected ==
    (block_size = 0 /\ Len(source) > 0 /\ pc \in {"done", "reconstructed"})
        => result.kind # "Ok"

\* C11: every failure caused by corrupt data (parse_shr_bundle on a cut
\* bundle, decompress_chunk on a chunk whose payload or digest was changed)
\* carries an error of the class "data is corrupt" (HashMismatch or
\* MalformedBundle), never Io, Compression or InvalidInput
C11_CorruptDataClass ==
    /\ (pc = "bundle" /\ parsed # None /\ buffer # created.value
            /\ parsed.kind = "Err")
          => parsed.error \in {"HashMismatch", "MalformedBundle"}
    /\ (pc = "chunk" /\ outcome # None /\ ~Intact /\ outcome.kind = "Err")
          => outcome.error \in {"HashMismatch", "MalformedBundle"}

\* C12: a compress call returns an error or one chunk per raw block (the
\* k-th being compress_chunk of the k-th block), and nothing before it
\* returns; when the pool cannot be built no block was handed to a worker;
\* the stored worker count is at least 1 (with_workers(n) for every n, 0
\* included)
C12_AllOrNothing ==
    /\ num_workers >= 1
    /\ \A n \in 0..MaxWorkers : with_workers(n) >= 1
    /\ pc \in {"read", "pool", "compress"} => result = None
    /\ pc \in {"done", "reconstructed"} =>
         \/ result.kind = "Err" /\ DOMAIN result = {"kind", "error"}
         \/ /\ result.kind = "Ok"
            /\ Len(result.value.chunks) = Len(chunks)
            /\ \A k \in 1..Len(chunks) :
                 result.value.chunks[k] = MapChunk(k, chunks[k]).value
    /\ result = Err("Compression") =>
         (pending = {} /\ running = {} /\ completed = << >> /\ slots = << >>)
    /\ (pc = "compress" /\ \E k \in DOMAIN slots : slots[k].kind = "Err")
         => collect(slots, completed).kind = "Err"

\* the pool could not be built although two blocks were read
C12_Witness ==
    /\ pc = "done"
    /\ result = Err("Compression")
    /\ Len(chunks) >= 2
    /\ num_workers = with_workers(0)

\* the chunk count a buffer of at least 8 bytes records
RecordedCount(bytes) == U32FromLeBytes(SubSeq(bytes, 5, 8))

\* the sum of the compressed sizes the metadata table of a buffer records
RecordedSizes(bytes) ==
    LET infos == ParseMetadata(bytes, 1, RecordedCount(bytes), << >>).value
    IN  SumSeq([k \in 1..Len(infos) |-> infos[k].compressed_size])

\* the buffer breaks the structure of a bundle: bad magic or version, too
\* short for its metadata table, or too short for the payloads it records
Malformed(bytes) ==
    \/ Len(bytes) < 8
    \/ SubSeq(bytes, 1, 4) # Magic
    \/ ~MetadataFits(Len(bytes), RecordedCount(bytes))
    \/ Len(bytes) - (8 + 44 * RecordedCount(bytes)) < RecordedSizes(bytes)

\* C13: for every buffer parse_shr_bundle reads only below the length of
\* the buffer and returns an error or a list of exactly chunk_count chunks,
\* and it returns an error for every malformed buffer
C13_ParseTotal ==
    (pc = "bundle" /\ parsed # None) =>
        /\ parsed.kind \in {"Ok", "Err"}
        /\ parsed.kind = "Ok" => Len(parsed.value) = RecordedCount(buffer)
        /\ Malformed(buffer) => parsed.kind = "Err"

\* C14: every chunk list parse_shr_bundle returns has the indices
\* 0, 1, ..., N-1, without gap or duplicate, whatever the buffer
C14_IndicesContiguous ==
    (pc = "bundle" /\ parsed # None /\ parsed.kind = "Ok") =>
        \A k \in 1..Len(parsed.value) : parsed.value[k].index = Usize(k - 1)

\* C15: in every CompressionResult of compress_file and
\* compress_async_reader, total_original_size is the sum of original_size
\* over the chunks and total_compressed_size the sum of their data lengths
C15_TotalsAreSums ==
    CompressOk =>
        LET cs == result.value.chunks
        IN  /\ result.value.total_original_size
                 = SumSeq([k \in 1..Len(cs) |-> cs[k].original_size.lo])
            /\ \A k \in 1..Len(cs) : cs[k].original_size.hi = 0
            /\ result.value.total_compressed_size
                 = SumSeq([k \in 1..Len(cs) |-> Len(cs[k].data)])

\* the data lengths of a chunk list
DataLens(cs) == [k \in 1..Len(cs) |-> Len(cs[k].data)]

\* the layout of the bundle of in_chunks, but for the three u32 fields of
\* the records: length, magic and version, count, digests, payloads
BundleFrame ==
    LET b == created.value
        N == Len(in_chunks)
    IN  /\ created.kind = "Ok"
        /\ Len(b) = 8 + 44 * N + SumSeq(DataLens(in_chunks))
        /\ SubSeq(b, 1, 4) = << 83, 72, 82, 1 >>
        /\ U32FromLeBytes(SubSeq(b, 5, 8)) = N
        /\ \A k \in 1..N :
             LET record  == 8 + 44 * (k - 1)
                 payload == 8 + 44 * N + SumSeq(SubSeq(DataLens(in_chunks), 1, k - 1))
             IN  /\ SubSeq(b, record + 13, record + 44) = in_chunks[k].hash
                 /\ SubSeq(b, payload + 1, payload + Len(in_chunks[k].data))
                      = in_chunks[k].data

\* the u32 at 0-based position `at` of the bundle
FieldAt(at) == U32FromLeBytes(SubSeq(created.value, at + 1, at + 4))

\* C16 as stated: the k-th record holds the index, original_size and
\* compressed size of the k-th input chunk, the k-th payload its data
C16_BundleLayoutExact ==
    (pc = "bundle" /\ created # None) =>
        /\ BundleFrame
        /\ \A k \in 1..Len(in_chunks) :
             LET record == 8 + 44 * (k - 1)
             IN  /\ U32AsUsize(FieldAt(record)) = in_chunks[k].index
                 /\ U32AsUsize(FieldAt(record + 4)) = in_chunks[k].original_size
                 /\ FieldAt(record + 8) = Len(in_chunks[k].data)

\* C16 amended: the same, the record holding the low 32 bits of the index
\* and of original_size
C16_BundleLayout ==
    (pc = "bundle" /\ created # None) =>
        /\ BundleFrame
        /\ \A k \in 1..Len(in_chunks) :
             LET record == 8 + 44 * (k - 1)
             IN  /\ FieldAt(record) = AsU32(in_chunks[k].index)
                 /\ FieldAt(record + 4) = AsU32(in_chunks[k].original_size)
                 /\ FieldAt(record + 8) = Len(in_chunks[k].data)

\* two chunks with different payloads, not in index order, the first with
\* an index of 2^32 or more
C16_Witness ==
    /\ pc = "bundle"
    /\ created # None
    /\ Len(in_chunks) = 2
    /\ in_chunks[1].index.hi = 1
    /\ in_chunks[2].index.hi = 0
    /\ in_chunks[1].data # in_chunks[2].data

\* C17: for every index and block, the chunk compress_chunk returns carries
\* the index, the digest of the raw block and its length, and
\* decompress_chunk on it returns Ok with exactly the block
C17_ChunkRoundTrip ==
    (pc = "chunk" /\ stored_chunk # None /\ Intact) =>
        /\ stored_chunk.index = chunk_index
        /\ stored_chunk.hash = Blake3(block)
        /\ stored_chunk.original_size = Usize(Len(block))
        /\ decompress_chunk(stored_chunk) = Ok(block)
        /\ outcome # None => outcome = Ok(block)

C17_Witness ==
    /\ pc = "chunk"
    /\ Intact
    /\ Len(block) >= 2
    /\ chunk_index = Wide(0)
    /\ outcome = Ok(block)

\* the string has no '/'
NoSlash(s) == \A i \in 1..Len(s) : s[i] # "/"

\* parse_shr_url was handed the URL as create_shr_url returned it
ParsedOwnUrl == pc = "url_parsed" /\ url_input = shr_url

\* the string lacks the scheme or has no '/' after the peer part
NotAShareUrl(s) == ~StartsWith(s, Scheme) \/ NoSlash(UrlRest(s))

\* C18 as stated: parse_shr_url(create_shr_url(p, h)) returns (p, h) for
\* every peer id and every string h, and parse_shr_url returns an error for
\* every string without the scheme or without a '/' after the peer part
C18_UrlRoundTripAnyHash ==
    /\ ParsedOwnUrl => url_outcome = Ok(<< local_peer, hash_text >>)
    /\ (pc = "url_parsed" /\ NotAShareUrl(url_input))
         => url_outcome.kind = "Err"

\* C18 amended: the same, for the strings h without '/'
C18_UrlRoundTrip ==
    /\ (ParsedOwnUrl /\ NoSlash(hash_text))
         => url_outcome = Ok(<< local_peer, hash_text >>)
    /\ (pc = "url_parsed" /\ NotAShareUrl(url_input))
         => url_outcome.kind = "Err"

C18_Witness ==
    /\ ParsedOwnUrl
    /\ Len(hash_text) = 2
    /\ NoSlash(hash_text)
    /\ url_outcome = Ok(<< local_peer, hash_text >>)

\* C19: a read of 0 bytes ends the loop and adds no block; a read of n
\* bytes, 0 < n < block_size, adds a block of n bytes and is the last read
\* (no read follows it, whatever is left in the source); every block is at
\* most block_size long and every block but the last exactly block_size
C19_ReadPolicy ==
    /\ \A i \in 1..Len(reads) :
         (reads[i] = 0 \/ reads[i] < block_size)
            => (i = Len(reads) /\ pc # "read")
    /\ Len(chunks) = Cardinality({ i \in 1..Len(reads) : reads[i] # 0 })
    /\ \A k \in 1..Len(chunks) :
         /\ Len(chunks[k]) = reads[k]
         /\ Len(chunks[k]) <= block_size
         /\ k < Len(chunks) => Len(chunks[k]) = block_size
    /\ position = SumSeq(reads)

\* a short read ended the loop although the source holds unread bytes, and
\* a full block was read before it
C19_Witness ==
    /\ pc = "pool"
    /\ Len(reads) = 2
    /\ reads[1] = block_size
    /\ 0 < reads[2] /\ reads[2] < block_size
    /\ position < Len(source)
    /\ Len(chunks) = 2

\* the blocks a worker has taken or finished
Started == running \cup { completed[j] : j \in 1..Len(completed) }

\* the chunker's loop has ended: its last read was empty or short
ReadingDone ==
    reads # << >> /\ LoopEnds(reads[Len(reads)], block_size)

\* C20: the reads are issued one after the other in the order of the
\* source (block k is the bytes of read k, right after those of read k-1);
\* a worker starts on block k only when block k, and in fact every block,
\* has been read; a failed read makes the call return the I/O error with
\* no block ever handed to compress_chunk
C20_ReadBeforeCompress ==
    /\ \A k \in 1..Len(chunks) :
         chunks[k] = SubSeq(source, SumSeq(SubSeq(reads, 1, k - 1)) + 1,
                            SumSeq(SubSeq(reads, 1, k)))
    /\ \A k \in Started \cup pending : k \in 1..Len(chunks)
    /\ (Started # {} \/ pending # {}) => ReadingDone
    /\ pc = "read" => (Started = {} /\ pending = {} /\ slots = << >>)
    /\ result = Err("Io") =>
         /\ pc = "done"
         /\ Started = {} /\ pending = {} /\ slots = << >>
         /\ ~(reads # << >> /\ reads[Len(reads)] = 0)

\* the third read failed after two blocks were read
C20_Witness ==
    /\ result = Err("Io")
    /\ pc = "done"
    /\ Len(chunks) = 2
    /\ Len(reads) = 2

\* the chunks that agree with c on data and digest: every index and
\* original_size of a small set, below and above 2^32
SameDataAndDigest(c) ==
    { [c EXCEPT !.index = i, !.original_size = s] :
        i \in {Usize(0), Usize(1), Wide(0)},
        s \in {Usize(0), Usize(Len(block)), Usize(Len(block) + 1), Wide(2)} }

\* C21: when decompress_chunk returns, every chunk with the same data and
\* digest, whatever its index and original_size, gives the same outcome
\* (the same bytes or the same error), and the chunk is as it was
C21_DependsOnDataAndDigest ==
    [][(pc = "chunk" /\ outcome = None /\ outcome' # None) =>
          /\ stored_chunk' = stored_chunk
          /\ \A c \in SameDataAndDigest(stored_chunk) :
                decompress_chunk(c) = outcome']_vars

\* decompress_chunk returned the block, and a chunk with another index and
\* another original_size gives the same
C21_Witness ==
    /\ pc = "chunk"
    /\ outcome = Ok(block)
    /\ Len(block) >= 1
    /\ stored_chunk.index = Usize(0)
    /\ decompress_chunk([stored_chunk EXCEPT !.index = Wide(0),
                                             !.original_size = Wide(2)])
         = outcome

\* the chunk with index and original_size reduced modulo 2^32
Mod32(c) ==
    [c EXCEPT !.index = [hi |-> 0, lo |-> c.index.lo],
              !.original_size = [hi |-> 0, lo |-> c.original_size.lo]]

\* C22: create_shr_bundle returns Ok and writes the chunk count and each
\* index, original_size and data length modulo 2^32; parse_shr_bundle on
\* that bundle returns the chunks with index and original_size modulo 2^32,
\* which are the original values exactly when those are below 2^32 (the
\* lists and payloads of the model are shorter than 2^32)
C22_FieldsModulo ==
    /\ (pc = "bundle" /\ created # None) =>
         /\ created.kind = "Ok"
         /\ SubSeq(created.value, 5, 8) = U32ToLeBytes(Len(in_chunks))
         /\ \A k \in 1..Len(in_chunks) :
              LET record == 8 + 44 * (k - 1)
              IN  /\ SubSeq(created.value, record + 1, record + 4)
                       = U32ToLeBytes(in_chunks[k].index.lo)
                  /\ SubSeq(created.value, record + 5, record + 8)
                       = U32ToLeBytes(in_chunks[k].original_size.lo)
                  /\ SubSeq(created.value, record + 9, record + 12)
                       = U32ToLeBytes(Len(in_chunks[k].data))
    /\ ParsedWhole =>
         /\ parsed.kind = "Ok"
         /\ BagOfSeq(parsed.value)
              = BagOfSeq([k \in 1..Len(in_chunks) |-> Mod32(in_chunks[k])])
         /\ Narrow(in_chunks) <=> BagOfSeq(parsed.value) = BagOfSeq(in_chunks)

\* a list with an index and an original_size of 2^32 or more went through
\* create_shr_bundle and parse_shr_bundle
C22_Witness ==
    /\ ParsedWhole
    /\ parsed.kind = "Ok"
    /\ Len(in_chunks) = 2
    /\ in_chunks[1].index.hi = 1
    /\ in_chunks[2].original_size.hi = 1

RECURSIVE Plaintexts(_, _)
\* the plaintexts of the first n chunks of cs, one after the other
Plaintexts(cs, n) ==
    IF n = 0 THEN << >>
    ELSE Plaintexts(cs, n - 1) \o decompress_chunk(cs[n]).value

\* reconstruct_file returned the error of decompress_chunk
DecompressFailed ==
    /\ pc = "recv_done"
    /\ recv_result.kind = "Err"
    /\ recv_result.error \in {"Compression", "HashMismatch"}

\* C23: reconstruct_file takes the chunks in the order given and appends
\* each plaintext to the file; when decompress_chunk fails on the k-th
\* chunk the call returns that error at once, and the file, created before
\* the first chunk is looked at, holds the plaintexts of the chunks before k
C23_StopsAtFirstBadChunk ==
    /\ pc \in {"recv_loop", "recv_done"} /\ recv_result # Err("Io") =>
         /\ next_chunk \in 1..(Len(recv_chunks) + 1)
         /\ \A j \in 1..(next_chunk - 1) :
               decompress_chunk(recv_chunks[j]).kind = "Ok"
         /\ recv_file = FileOf(Plaintexts(recv_chunks, next_chunk - 1))
    /\ DecompressFailed =>
         /\ next_chunk <= Len(recv_chunks)
         /\ recv_result = decompress_chunk(recv_chunks[next_chunk])
         /\ reconstruct_file(recv_chunks)
              = [result |-> recv_result, output |-> recv_file.content]
    /\ (pc = "recv_done" /\ recv_result = Ok("done")) =>
         /\ next_chunk = Len(recv_chunks) + 1
         /\ reconstruct_file(recv_chunks)
              = [result |-> recv_result, output |-> recv_file.content]

\* the second of three chunks has a wrong digest: the file holds the
\* plaintext of the first, although the third is intact
C23_Witness ==
    /\ DecompressFailed
    /\ recv_result.error = "HashMismatch"
    /\ Len(recv_chunks) = 3
    /\ next_chunk = 2
    /\ recv_file = FileOf(<< 1, 0 >>)
    /\ decompress_chunk(recv_chunks[3]).kind = "Ok"

\* send_file has gone past compress_file and has chosen its route
Routed ==
    \/ pc \in {"send_discover", "send_upload"}
    \/ pc = "send_done" /\ send_result.kind = "Ok"
    \/ pc = "send_done" /\ send_result = Err("Network")

\* the discovery ran out of time, failed, or returned no peers
NoPeers(peers) ==
    \/ peers = Elapsed
    \/ peers.kind = "Ok" /\ peers.value.kind = "Err"
    \/ peers = Ok(Ok(<< >>))

\* C24: with force_fallback no discovery is started and upload_to_http is
\* called; without it the discovery runs first, and upload_to_http is
\* called exactly when the discovery timed out, failed or returned no peers
\* (never when it returned a peer)
C24_FallbackRouting ==
    /\ pc \in {"send", "send_route", "send_discover", "send_upload", "send_done"} =>
         /\ uploads <= 1 /\ discoveries <= 1
         /\ force_fallback => (discoveries = 0 /\ discovered = None)
         /\ (force_fallback /\ Routed) => uploads = 1
         /\ (~force_fallback /\ Routed) => discoveries = 1
         /\ (~force_fallback /\ uploads = 1) =>
               (discoveries = 1 /\ discovered # None /\ NoPeers(discovered))
         /\ (~force_fallback /\ discovered # None) =>
               (uploads = 1 <=> NoPeers(discovered))
         /\ ~Routed /\ pc # "send_route" => uploads = 0
    /\ ~PeersFound(Elapsed)
    /\ ~PeersFound(Ok(Ok(<< >>)))
    /\ \A e \in {"Network", "P2P"} : ~PeersFound(Ok(Err(e)))
    /\ \A p \in PeerIds : PeersFound(Ok(Ok(<< p >>)))

\* without force_fallback the discovery ran out of time and the upload
\* that followed succeeded
C24_Witness ==
    /\ pc = "send_done"
    /\ ~force_fallback
    /\ discoveries = 1
    /\ discovered = Elapsed
    /\ uploads = 1
    /\ send_result = Ok("download_url")

=============================================================================
